---- MODULE Spec2Model ----
(***************************************************************************)
(* Model of hover/postproc/process_utils.py: process() and __proc_np_hv(). *)
(*                                                                         *)
(* An image is a Rows x Cols grid of pixels <<r, c>>.  Real-valued planes  *)
(* are kept in tenths (0.5 is 5, 0.4 is 4).  The two gradient planes enter *)
(* the code only through `overall`, the maximum of the two inverted,       *)
(* min-max normalised Sobel responses (lines 49-70); the model takes that  *)
(* plane (`edge`, tenths) as the input in their place.  The elevation      *)
(* `dist` (lines 74-76) only decides which seed wins a pixel that two      *)
(* seeds can reach; watershed is therefore a choice among the labellings   *)
(* a marker-controlled flood can produce.                                  *)
(*                                                                         *)
(* Optional values: None is <<>>, a present value x is <<x>>.              *)
(***************************************************************************)
EXTENDS Integers, Sequences, FiniteSets, TLC

\* ------------------------------------------------------------- bounds
Rows == 3
Cols == 9
MaxTypes == 3

\* ---------------------------------------------------- program constants
ProbThreshold == 5
OverallThreshold == 4
min_size == 10
KernelSize == 5
InstChannels == 3

VARIABLES
    pc,             \* position in process()
    nr_types,       \* None or <<n>>
    return_dict,
    return_probs,
    nchan,          \* C, the channel count of pred_map
    scores,         \* class-score vector per pixel: channels [0, min(nr_types, C))
    prob,           \* foreground probability plane, tenths
    edge,           \* max of the inverted normalised Sobel planes, tenths
    pred_type,      \* None or <<argmax class map>>
    inst_shape,     \* shape of pred_inst after np.squeeze
    blb_shape,      \* shape of blb inside __proc_np_hv
    dist_shape,     \* shape of dist inside __proc_np_hv
    blb,            \* foreground mask (set of pixels)
    marker,         \* labelled marker image
    pred_inst,      \* instance label image
    inst_id_list,   \* np.unique(pred_inst)[1:]
    idx,            \* loop index of the running for loop
    inst_info_dict, \* None or <<mapping id -> entry>>
    inst_bbox_dict, \* None or <<mapping id -> bbox>>
    ncalls,         \* get_bounding_box / cv2.moments / cv2.findContours calls made
    result          \* None or <<[inst |-> label image, info |-> inst_info_dict]>>

vars == <<pc, nr_types, return_dict, return_probs, nchan, scores, prob, edge,
          pred_type, inst_shape, blb_shape, dist_shape, blb, marker, pred_inst,
          inst_id_list, idx, inst_info_dict, inst_bbox_dict, ncalls, result>>

inputs == <<nr_types, return_dict, return_probs, nchan, scores, prob, edge>>

None == <<>>
Some(x) == <<x>>
IsNone(v) == v = <<>>
Val(v) == v[1]

Pixels == {<<r, c>> : r \in 0 .. Rows - 1, c \in 0 .. Cols - 1}
Idx(p) == p[1] * Cols + p[2]
Zero == [p \in Pixels |-> 0]
Max(a, b) == IF a >= b THEN a ELSE b
Min(a, b) == IF a <= b THEN a ELSE b

\* ------------------------------------------------------ numpy helpers

\* np.argmax over the last axis: the first index holding the maximum.
ArgmaxFirst(v) ==
    CHOOSE i \in 1 .. Len(v) :
        /\ \A j \in 1 .. Len(v) : v[j] <= v[i]
        /\ \A j \in 1 .. (i - 1) : v[j] < v[i]
argmax(v) == ArgmaxFirst(v) - 1

\* np.squeeze: drop every axis of length 1.
squeeze(shape) == SelectSeq(shape, LAMBDA n : n # 1)

\* pred[..., k]: valid when k is below the length of the last axis.
\* (faulty variant: accepts an index equal to the axis length)
CanIndexLastLoose(shape, k) == Len(shape) >= 1 /\ k <= shape[Len(shape)]
CanIndexLast(shape, k) == Len(shape) >= 1 /\ k < shape[Len(shape)]
DropLast(shape) == SubSeq(shape, 1, Len(shape) - 1)

\* A cv2 result is at least two-dimensional: a 1-D array of n values is an n x 1 image.
cv2shape(shape) == IF Len(shape) = 1 THEN <<shape[1], 1>> ELSE shape

\* numpy broadcasting of two shapes (both non-empty here, sizes compatible).
broadcast(s, t) ==
    LET n == Max(Len(s), Len(t))
        at(u, i) == IF i + Len(u) - n >= 1 THEN u[i + Len(u) - n] ELSE 1
    IN  [i \in 1 .. n |-> Max(at(s, i), at(t, i))]

\* ------------------------------------------------ scipy / skimage / cv2

N4(p) == {<<p[1] - 1, p[2]>>, <<p[1] + 1, p[2]>>, <<p[1], p[2] - 1>>, <<p[1], p[2] + 1>>}

\* The pixels of S reachable from cur through 4-connected steps inside S.
RECURSIVE GrowFrom(_, _, _)
GrowFrom(S, seen, front) ==
    IF front = {} THEN seen
    ELSE LET nxt == {q \in Pixels : q \in S /\ q \notin seen /\ N4(q) \cap front # {}}
         IN  GrowFrom(S, {p \in Pixels : p \in seen \/ p \in nxt}, nxt)
Grow(S, cur) == GrowFrom(S, cur, cur)

First(S) == CHOOSE p \in S : \A q \in S : Idx(p) <= Idx(q)

\* scipy.ndimage.measurements.label, default structure (4-connectivity):
\* components numbered 1, 2, ... in raster order of their first pixel.
RECURSIVE Components(_)
Components(rest) ==
    IF rest = {} THEN <<>>
    ELSE LET comp == Grow(rest, {First(rest)})
         IN  <<comp>> \o Components(rest \ comp)
label(S) ==
    LET cs == Components(S)
    IN  [p \in Pixels |-> IF p \in S THEN CHOOSE k \in 1 .. Len(cs) : p \in cs[k] ELSE 0]

Labels(lab) == {lab[p] : p \in Pixels} \ {0}
Region(lab, k) == {p \in Pixels : lab[p] = k}

\* skimage.morphology.remove_small_objects on a labelled image.
remove_small_objects(lab, n) ==
    LET small == {k \in Labels(lab) : Cardinality(Region(lab, k)) < n}
    IN  [p \in Pixels |-> IF lab[p] \in small THEN 0 ELSE lab[p]]

\* scipy.ndimage.binary_fill_holes: background not 4-connected to the frame is filled.
OnFrame(p) == p[1] = 0 \/ p[1] = Rows - 1 \/ p[2] = 0 \/ p[2] = Cols - 1
binary_fill_holes(S) ==
    LET bg == {p \in Pixels : p \notin S}
        out == Grow(bg, {p \in bg : OnFrame(p)})
    IN  {p \in Pixels : p \notin out}

\* cv2.getStructuringElement(MORPH_ELLIPSE, (n, n)): row dy spans dx = round(c * sqrt(1 - dy^2/r^2)).
HalfWidth(n, dy) ==
    LET r == n \div 2
        x2 == 4 * r * r * (r * r - dy * dy)     \* (2 * c * sqrt(..) * r)^2, c = r
    IN  CHOOSE d \in 0 .. r :
            /\ (d = 0 \/ (2 * d - 1) * (2 * d - 1) * r * r <= x2)
            /\ x2 < (2 * d + 1) * (2 * d + 1) * r * r
Ellipse(n) ==
    {d \in {<<dy, dx>> : dy \in -(n \div 2) .. (n \div 2), dx \in -(n \div 2) .. (n \div 2)} :
        d[2] >= -HalfWidth(n, d[1]) /\ d[2] <= HalfWidth(n, d[1])}

\* cv2.morphologyEx(MORPH_OPEN): erosion then dilation; outside the image the
\* default border value never erodes and never dilates.
Shift(p, d) == <<p[1] + d[1], p[2] + d[2]>>
erode(S, K) == {p \in Pixels : p \in S /\ \A d \in K : Shift(p, d) \in Pixels => Shift(p, d) \in S}
dilate(S, K) == {p \in Pixels : \E d \in K : Shift(p, d) \in S}
morph_open(S, K) == dilate(erode(S, K), K)


Support(lab) == {p \in Pixels : lab[p] # 0}

\* skimage watershed(dist, marker, mask): every labelling the flood can end in.
\* Seeds are the marker pixels inside the mask; every mask pixel 4-connected
\* to a seed through the mask takes the label of one seed, each basin stays
\* connected to its seed, and nothing outside the mask is labelled.
\* (faulty variant: marker pixels outside the mask keep their label)
SeedsUnmasked(mk, mask) == mk
Seeds(mk, mask) == [p \in Pixels |-> IF p \in mask THEN mk[p] ELSE 0]

Flooded(seeds, mask) == Grow(mask \cup Support(seeds), Support(seeds))
Basins(seeds, mask) ==
    LET contested == Flooded(seeds, mask) \ Support(seeds)
        ok(f) == \A k \in Labels(seeds) :
                    LET R == Region(seeds, k) \cup {p \in contested : f[p] = k}
                    IN  Grow(R, Region(seeds, k)) = R
    IN  {[p \in Pixels |-> IF p \in contested THEN f[p] ELSE seeds[p]] :
            f \in {g \in [contested -> Labels(seeds)] : ok(g)}}
watershed(mk, mask) == Basins(Seeds(mk, mask), mask)

\* ------------------------------------------------------- __proc_np_hv

One == 10

\* lines 43-47: threshold, label, drop small components, collapse to a binary mask.
Foreground(pr) == {p \in Pixels : pr[p] >= ProbThreshold}
BlbOf(pr) == Support(remove_small_objects(label(Foreground(pr)), min_size))

\* lines 70-72: overall = max(sobelh, sobelv) - (1 - blb), negatives clipped to 0.
OverallOf(e, mask) ==
    [p \in Pixels |-> Max(e[p] - (One - (IF p \in mask THEN One ELSE 0)), 0)]

\* lines 78-86: seeds = mask minus ridge, holes filled, opened, labelled, small ones dropped.
MarkerOf(e, mask) ==
    LET overall == OverallOf(e, mask)
        ridge == {p \in Pixels : overall[p] >= OverallThreshold}
        raw == {p \in mask : p \notin ridge}
        opened == morph_open(binary_fill_holes(raw), Ellipse(KernelSize))
    IN  remove_small_objects(label(opened), min_size)

\* ------------------------------------------------------------ process

HasTypes == ~IsNone(nr_types)
TypeChannels == IF HasTypes THEN Min(Val(nr_types), nchan) ELSE 0
InstChannelCount == IF HasTypes THEN Max(nchan - Val(nr_types), 0) ELSE nchan

\* lines 107-115: split the channels, argmax the class scores, squeeze.
Split ==
    /\ pc = "split"
    /\ IF HasTypes /\ TypeChannels = 0
       THEN \* np.argmax over an empty axis raises
            /\ pc' = "error"
            /\ UNCHANGED <<pred_type, inst_shape>>
       ELSE /\ pred_type' = IF HasTypes
                            THEN Some([p \in Pixels |-> argmax(scores[p])])
                            ELSE None
            /\ inst_shape' = squeeze(<<Rows, Cols, InstChannelCount>>)
            /\ pc' = "proc_np_hv"
    /\ UNCHANGED <<inputs, blb_shape, dist_shape, blb, marker, pred_inst,
                   inst_id_list, idx, inst_info_dict, inst_bbox_dict, ncalls, result>>

\* lines 36-47: take the three planes (IndexError when the last axis is shorter), build blb.
Threshold ==
    /\ pc = "proc_np_hv"
    /\ IF ~CanIndexLast(inst_shape, InstChannels - 1)
       THEN /\ pc' = "error"
            /\ UNCHANGED <<blb_shape, blb>>
       ELSE /\ blb_shape' = DropLast(inst_shape)
            \* with the channel axis squeezed away the planes are single columns;
            \* only their shape is followed from here on
            /\ blb' = IF Len(inst_shape) = 3 THEN BlbOf(prob) ELSE {}
            /\ pc' = "marker"
    /\ UNCHANGED <<inputs, pred_type, inst_shape, dist_shape, marker, pred_inst,
                   inst_id_list, idx, inst_info_dict, inst_bbox_dict, ncalls, result>>

\* lines 49-86: the Sobel planes come back from cv2 (two-dimensional), are
\* combined with blb by broadcasting, and the markers are built.
Marker ==
    /\ pc = "marker"
    /\ dist_shape' = cv2shape(broadcast(cv2shape(blb_shape), blb_shape))
    /\ marker' = IF Len(blb_shape) = 2 THEN MarkerOf(edge, blb) ELSE Zero
    /\ pc' = "watershed"
    /\ UNCHANGED <<inputs, pred_type, inst_shape, blb_shape, blb, pred_inst,
                   inst_id_list, idx, inst_info_dict, inst_bbox_dict, ncalls, result>>

\* line 88: watershed raises when mask and image differ in shape.
Watershed ==
    /\ pc = "watershed"
    /\ IF blb_shape # dist_shape
       THEN /\ pc' = "error"
            /\ UNCHANGED pred_inst
       ELSE /\ pred_inst' \in watershed(marker, blb)
            /\ pc' = "unique"
    /\ UNCHANGED <<inputs, pred_type, inst_shape, blb_shape, dist_shape, blb, marker,
                   inst_id_list, idx, inst_info_dict, inst_bbox_dict, ncalls, result>>


\* ------------------------------------------------ attribute extraction

\* np.unique: the distinct values in ascending order.
RECURSIVE Ascending(_)
Ascending(S) ==
    IF S = {} THEN <<>>
    ELSE LET m == CHOOSE x \in S : \A y \in S : x <= y
         IN  <<m>> \o Ascending(S \ {m})
unique(lab) == Ascending({lab[p] : p \in Pixels})
Tail1(s) == IF s = <<>> THEN <<>> ELSE Tail(s)

\* line 120: np.unique(pred_inst)[1:]
\* (faulty variant: the background value is kept)
IdListKeepAll(lab) == unique(lab)
IdList(lab) == Tail1(unique(lab))

\* hover.misc.utils.get_bounding_box: (rmin, rmax, cmin, cmax), upper bounds exclusive.
get_bounding_box(S) ==
    LET rs == {p[1] : p \in S}
        cs == {p[2] : p \in S}
        lo(X) == CHOOSE x \in X : \A y \in X : x <= y
        hi(X) == CHOOSE x \in X : \A y \in X : x >= y
    IN  <<lo(rs), hi(rs) + 1, lo(cs), hi(cs) + 1>>

\* line 127: np.array([[rmin, cmin], [rmax, cmax]])
BboxOf(S) ==
    LET b == get_bounding_box(S)
    IN  <<<<b[1], b[3]>>, <<b[2], b[4]>>>>

\* lines 128-130: the mask cut to the box, as local <<row, col>> pixels.
Crop(S, bbox) ==
    {<<p[1] - bbox[1][1], p[2] - bbox[1][2]>> :
        p \in {q \in S : /\ q[1] >= bbox[1][1] /\ q[1] < bbox[2][1]
                         /\ q[2] >= bbox[1][2] /\ q[2] < bbox[2][2]}}

RECURSIVE SumOver(_, _)
SumOver(S, c) ==
    IF S = {} THEN 0
    ELSE LET p == CHOOSE q \in S : TRUE
         IN  p[c] + SumOver(S \ {p}, c)

\* cv2.moments of a 0/1 image: m00 the area, m10 the sum of x (column), m01 of y (row).
moments(M) == [m00 |-> Cardinality(M), m10 |-> SumOver(M, 2), m01 |-> SumOver(M, 1)]

\* cv2.findContours(...)[0][0]: border pixels of the mask as local <<x, y>> points.
\* The order of the points and CHAIN_APPROX_SIMPLE's thinning are left out:
\* every point cv2 returns is one of these.
findContours(M) ==
    {<<p[2], p[1]>> :
        p \in {q \in M : \E dr \in {-1, 0, 1}, dc \in {-1, 0, 1} :
                            <<q[1] + dr, q[2] + dc>> \notin M}}

\* A quotient n / d kept exact.
Frac(n, d) == [num |-> n, den |-> d]
AddInt(f, k) == [num |-> f.num + k * f.den, den |-> f.den]

\* lines 143-146: shift local coordinates by the box origin: x by column, y by row.
\* (faulty variant: x shifted by the row origin, y by the column origin)
ToGlobalSwapped(pt, bbox) == <<pt[1] + bbox[1][1], pt[2] + bbox[1][2]>>
ToGlobal(pt, bbox) == <<pt[1] + bbox[1][2], pt[2] + bbox[1][1]>>
CentroidToGlobal(c, bbox) == <<AddInt(c[1], bbox[1][2]), AddInt(c[2], bbox[1][1])>>

\* lines 124-150: the geometry entry of one instance id.
GeomEntry(lab, id) ==
    LET bbox == BboxOf(Region(lab, id))
        inst_map == Crop(Region(lab, id), bbox)
        m == moments(inst_map)
        inst_centroid == <<Frac(m.m10, m.m00), Frac(m.m01, m.m00)>>
    IN  [centroid |-> CentroidToGlobal(inst_centroid, bbox),
         contour |-> {ToGlobal(pt, bbox) : pt \in findContours(inst_map)}]

\* dict assignment d[k] = v
\* (faulty variant: the mapping is rebuilt with the one key)
PutReset(d, k, v) == [j \in {k} |-> v]
Put(d, k, v) == [j \in DOMAIN d \cup {k} |-> IF j = k THEN v ELSE d[j]]

\* line 159: inst_bbox_dict[inst_id]["bbox"]
LookupBbox(d, id) == d[id]

\* lines 159-163: class values of the instance's pixels inside its box.
InstPixels(lab, id, bbox) ==
    {p \in Pixels : /\ p[1] >= bbox[1][1] /\ p[1] < bbox[2][1]
                    /\ p[2] >= bbox[1][2] /\ p[2] < bbox[2][2]
                    /\ lab[p] = id}

\* line 164-165: np.unique(inst_type, return_counts=True), zipped.
TypeCounts(tmap, px) ==
    LET tl == Ascending({tmap[p] : p \in px})
    IN  [i \in 1 .. Len(tl) |-> <<tl[i], Cardinality({p \in px : tmap[p] = tl[i]})>>]

\* line 166: sorted(type_list, key=count, reverse=True), stable.
\* (faulty variant: an equal count goes in front, so ties are reversed)
InsertUnstable(s, x) ==
    LET k == Cardinality({i \in 1 .. Len(s) : s[i][2] > x[2]})
    IN  SubSeq(s, 1, k) \o <<x>> \o SubSeq(s, k + 1, Len(s))
Insert(s, x) ==
    LET k == Cardinality({i \in 1 .. Len(s) : s[i][2] >= x[2]})
    IN  SubSeq(s, 1, k) \o <<x>> \o SubSeq(s, k + 1, Len(s))
RECURSIVE SortFrom(_, _)
SortFrom(s, acc) == IF s = <<>> THEN acc ELSE SortFrom(Tail(s), Insert(acc, Head(s)))
sorted(s) == SortFrom(s, <<>>)

\* lines 167-170: the dominant class, or the runner-up when the dominant one is 0.
\* (faulty variant: no exception for class 0)
PickTop(type_list) == type_list[1][1]
PickType(type_list) ==
    IF type_list[1][1] = 0 /\ Len(type_list) > 1
    THEN type_list[2][1]
    ELSE type_list[1][1]

\* lines 173-177: dense vector over class ids 0 .. nr_types - 1.
ProbsOf(tc, nr_pix, n) ==
    [c \in 0 .. n - 1 |->
        IF \E i \in 1 .. Len(tc) : tc[i][1] = c
        THEN LET i == CHOOSE j \in 1 .. Len(tc) : tc[j][1] = c
             IN  Frac(tc[i][2], nr_pix)
        ELSE Frac(0, 1)]

\* line 174: nr_pix = np.sum(inst_map_crop)
\* (faulty variant: the area of the box)
NrPixBox(px, bbox) == (bbox[2][1] - bbox[1][1]) * (bbox[2][2] - bbox[1][2])
NrPix(px, bbox) == Cardinality(px)

\* lines 159-178: the entry of one instance id after the classification pass.
TypedEntry(entry, lab, tmap, id, bbox, n, probs) ==
    LET px == InstPixels(lab, id, bbox)
        tc == TypeCounts(tmap, px)
        t == PickType(sorted(tc))
    IN  IF probs
        THEN [centroid |-> entry.centroid, contour |-> entry.contour, type |-> t,
              probs |-> ProbsOf(tc, NrPix(px, bbox), n)]
        ELSE [centroid |-> entry.centroid, contour |-> entry.contour, type |-> t]

\* line 119: return_dict or nr_types is not None
\* (faulty variant: return_probs alone asks for the mapping)
WantsInfoOrProbs == return_dict \/ HasTypes \/ return_probs
WantsInfo == return_dict \/ HasTypes

\* lines 118-122
Unique ==
    /\ pc = "unique"
    /\ IF WantsInfo
       THEN /\ inst_id_list' = IdList(pred_inst)
            /\ inst_info_dict' = Some(<<>>)
            /\ inst_bbox_dict' = Some(<<>>)
            /\ pc' = "extract"
       ELSE /\ UNCHANGED <<inst_id_list, inst_info_dict, inst_bbox_dict>>
            /\ pc' = "return"
    /\ idx' = 1
    /\ UNCHANGED <<inputs, pred_type, inst_shape, blb_shape, dist_shape, blb, marker,
                   pred_inst, ncalls, result>>

\* lines 123-153: one pass of the first loop, or its end.
Extract ==
    /\ pc = "extract"
    /\ idx <= Len(inst_id_list)
    /\ LET inst_id == inst_id_list[idx]
       IN  /\ inst_info_dict' = Some(Put(Val(inst_info_dict), inst_id,
                                         GeomEntry(pred_inst, inst_id)))
           /\ inst_bbox_dict' = Some(Put(Val(inst_bbox_dict), inst_id,
                                         BboxOf(Region(pred_inst, inst_id))))
    /\ ncalls' = ncalls + 1
    /\ idx' = idx + 1
    /\ UNCHANGED <<inputs, pc, pred_type, inst_shape, blb_shape, dist_shape, blb, marker,
                   pred_inst, inst_id_list, result>>

ExtractEnd ==
    /\ pc = "extract"
    /\ idx > Len(inst_id_list)
    /\ pc' = IF HasTypes THEN "type" ELSE "return"
    /\ idx' = 1
    /\ UNCHANGED <<inputs, pred_type, inst_shape, blb_shape, dist_shape, blb, marker,
                   pred_inst, inst_id_list, inst_info_dict, inst_bbox_dict, ncalls, result>>

\* lines 156-178: one pass of the second loop, or its end.
Type ==
    /\ pc = "type"
    /\ idx <= Len(inst_id_list)
    /\ LET inst_id == inst_id_list[idx]
           d == Val(inst_info_dict)
       IN  inst_info_dict' =
               Some(Put(d, inst_id,
                        TypedEntry(d[inst_id], pred_inst, Val(pred_type), inst_id,
                                   LookupBbox(Val(inst_bbox_dict), inst_id), Val(nr_types),
                                   return_probs)))
    /\ idx' = idx + 1
    /\ UNCHANGED <<inputs, pc, pred_type, inst_shape, blb_shape, dist_shape, blb, marker,
                   pred_inst, inst_id_list, inst_bbox_dict, ncalls, result>>

TypeEnd ==
    /\ pc = "type"
    /\ idx > Len(inst_id_list)
    /\ pc' = "return"
    /\ UNCHANGED <<inputs, pred_type, inst_shape, blb_shape, dist_shape, blb, marker,
                   pred_inst, inst_id_list, idx, inst_info_dict, inst_bbox_dict, ncalls,
                   result>>

\* line 180
Return ==
    /\ pc = "return"
    /\ result' = Some([inst |-> pred_inst, info |-> inst_info_dict])
    /\ pc' = "done"
    /\ UNCHANGED <<inputs, pred_type, inst_shape, blb_shape, dist_shape, blb, marker,
                   pred_inst, inst_id_list, idx, inst_info_dict, inst_bbox_dict, ncalls>>


\* ------------------------------------------------------------- inputs

\* Foreground probability: just at the threshold, or just below it in the
\* background columns and at the hole pixels.
ProbPlane(bgcols, hole) ==
    [p \in Pixels |-> IF p[2] \in bgcols \/ p \in hole
                      THEN ProbThreshold - 1 ELSE ProbThreshold]

\* Edge energy: 0 away from column rc; in column rc the top pixel holds the
\* maximum (where a normalised Sobel plane has its minimum) and the others v.
EdgePlane(rc, v) ==
    [p \in Pixels |-> IF p[2] # rc THEN 0 ELSE IF p[1] = 0 THEN One ELSE v]

\* Class scores of a pixel meant for class k over tc channels: channels k and
\* above share the maximum.
ScoreVec(k, tc) == [j \in 1 .. tc |-> IF j - 1 >= k THEN 5 ELSE 1]

\* Class a left of column sc, class b from sc on, class t in the top row when top.
ScorePlane(a, b, sc, top, t, tc) ==
    [p \in Pixels |->
        ScoreVec(IF top /\ p[1] = 0 THEN t ELSE IF p[2] < sc THEN a ELSE b, tc)]

Mid == Cols \div 2
TypeCounts0 == {None} \cup {Some(n) : n \in 2 .. MaxTypes}
Needed(nr) == (IF IsNone(nr) THEN 0 ELSE Val(nr)) + InstChannels
TcOf(nr, c) == IF IsNone(nr) THEN 0 ELSE Min(Val(nr), c)

Fresh ==
    /\ pc = "split"
    /\ pred_type = None
    /\ inst_shape = <<>>
    /\ blb_shape = <<>>
    /\ dist_shape = <<>>
    /\ blb = {}
    /\ marker = Zero
    /\ pred_inst = Zero
    /\ inst_id_list = <<>>
    /\ idx = 1
    /\ inst_info_dict = None
    /\ inst_bbox_dict = None
    /\ ncalls = 0
    /\ result = None

\* Well-formed calls over many foreground and ridge layouts.
InitSeg ==
    /\ nr_types \in {None, Some(2)}
    /\ return_dict \in IF IsNone(nr_types) THEN BOOLEAN ELSE {FALSE}
    /\ return_probs \in BOOLEAN
    /\ nchan = Needed(nr_types)
    /\ \E bgcols \in {{}, 0 .. Cols - 1} \cup {{c} : c \in 0 .. Cols - 1},
          hole \in {{}, {<<1, 1>>}} :
            prob = ProbPlane(bgcols, hole)
    /\ \E rc \in 0 .. Cols - 1, v \in {OverallThreshold - 1, OverallThreshold} :
            edge = EdgePlane(rc, v)
    /\ scores = ScorePlane(0, 1, Mid, FALSE, 0, TcOf(nr_types, nchan))
    /\ Fresh

\* Well-formed calls over many class maps.
InitTypes ==
    /\ nr_types \in {Some(n) : n \in 2 .. MaxTypes}
    /\ return_dict = FALSE
    /\ return_probs \in BOOLEAN
    /\ nchan = Needed(nr_types)
    /\ \E bc \in {0, Mid} :
            /\ prob = ProbPlane({bc}, {})
            /\ edge = EdgePlane(bc, OverallThreshold)
    /\ \E a \in 0 .. Val(nr_types) - 1, b \in 0 .. Val(nr_types) - 1,
          sc \in 0 .. Cols, top \in BOOLEAN :
            scores = ScorePlane(a, b, sc, top, Val(nr_types) - 1,
                                TcOf(nr_types, nchan))
    /\ Fresh

\* Calls over every channel count.
InitShape ==
    /\ nr_types \in TypeCounts0
    /\ return_dict = TRUE
    /\ return_probs = FALSE
    /\ nchan \in 0 .. MaxTypes + InstChannels + 1
    /\ prob = ProbPlane({Mid}, {})
    /\ edge = EdgePlane(Mid, OverallThreshold)
    /\ scores = ScorePlane(0, 1, Mid, FALSE, 0, TcOf(nr_types, nchan))
    /\ Fresh

Init == InitSeg \/ InitTypes \/ InitShape

Next == Split \/ Threshold \/ Marker \/ Watershed \/ Unique \/ Extract \/ ExtractEnd
        \/ Type \/ TypeEnd \/ Return

Spec == Init /\ [][Next]_vars


\* ----------------------------------- extraction in any order of the ids

\* The ids of inst_id_list, and those whose passes have run.
Ids == {inst_id_list[i] : i \in 1 .. Len(inst_id_list)}
GeomDone == DOMAIN Val(inst_bbox_dict)
TypeDone == {id \in DOMAIN Val(inst_info_dict) : "type" \in DOMAIN Val(inst_info_dict)[id]}

\* The body of the first loop (lines 124-153) for any id not yet processed.
AnyGeom ==
    /\ pc = "extract"
    /\ \E inst_id \in Ids \ GeomDone :
        /\ inst_info_dict' = Some(Put(Val(inst_info_dict), inst_id,
                                      GeomEntry(pred_inst, inst_id)))
        /\ inst_bbox_dict' = Some(Put(Val(inst_bbox_dict), inst_id,
                                      BboxOf(Region(pred_inst, inst_id))))
    /\ ncalls' = ncalls + 1
    /\ UNCHANGED <<inputs, pc, pred_type, inst_shape, blb_shape, dist_shape, blb, marker,
                   pred_inst, inst_id_list, idx, result>>

\* The body of the second loop (lines 159-178) for any id whose geometry is stored.
AnyType ==
    /\ pc = "extract"
    /\ HasTypes
    /\ \E inst_id \in GeomDone \ TypeDone :
        LET d == Val(inst_info_dict)
        IN  inst_info_dict' =
                Some(Put(d, inst_id,
                         TypedEntry(d[inst_id], pred_inst, Val(pred_type), inst_id,
                                    LookupBbox(Val(inst_bbox_dict), inst_id),
                                    Val(nr_types), return_probs)))
    /\ UNCHANGED <<inputs, pc, pred_type, inst_shape, blb_shape, dist_shape, blb, marker,
                   pred_inst, inst_id_list, idx, inst_bbox_dict, ncalls, result>>

AnyEnd ==
    /\ pc = "extract"
    /\ GeomDone = Ids
    /\ HasTypes => TypeDone = Ids
    /\ pc' = "return"
    /\ UNCHANGED <<inputs, pred_type, inst_shape, blb_shape, dist_shape, blb, marker,
                   pred_inst, inst_id_list, idx, inst_info_dict, inst_bbox_dict, ncalls,
                   result>>

InitAny ==
    /\ nr_types \in TypeCounts0
    /\ return_dict = TRUE
    /\ return_probs \in BOOLEAN
    /\ nchan \in {Needed(nr_types) - 1, Needed(nr_types)}
    /\ \E bgcols \in {{}, {Mid}}, hole \in {{}, {<<1, 1>>}} :
            prob = ProbPlane(bgcols, hole)
    /\ edge = EdgePlane(Mid, OverallThreshold)
    /\ \E a \in {0, 1}, sc \in {Mid - 2, Mid} :
            scores = ScorePlane(a, 1, sc, FALSE, 0, TcOf(nr_types, nchan))
    /\ Fresh

NextAny == Split \/ Threshold \/ Marker \/ Watershed \/ Unique \/ AnyGeom \/ AnyType
           \/ AnyEnd \/ Return

SpecAnyOrder == InitAny /\ [][NextAny]_vars


\* ------------------------------------------------------------- claims

Segmented == pc \in {"unique", "extract", "type", "return", "done"}
WellFormed == nchan >= Needed(nr_types)
Info == Val(inst_info_dict)
Typed(id) == id \in DOMAIN Info /\ "type" \in DOMAIN Info[id]
ClassMap == Val(pred_type)
\* Number of the instance's pixels whose argmax class is c.
Cnt(id, c) == Cardinality({p \in Pixels : pred_inst[p] = id /\ ClassMap[p] = c})
Area(id) == Cardinality(Region(pred_inst, id))
Classes(id) == {ClassMap[p] : p \in Region(pred_inst, id)}
\* c ranks before e: more pixels, or as many and the smaller class id.
Before(id, c, e) == Cnt(id, c) > Cnt(id, e) \/ (Cnt(id, c) = Cnt(id, e) /\ c < e)
RankFirst(id, S) == CHOOSE c \in S : \A e \in S \ {c} : Before(id, c, e)

\* C1: when extraction is requested, the keys of the returned info mapping are
\* exactly the distinct non-zero values of the returned label image.
C1_KeysAreTheIds ==
    (pc = "done" /\ WantsInfo) =>
        DOMAIN Val(Val(result).info) = Labels(Val(result).inst)

\* C2: with nr_types given, an instance is reported as type 0 only if class 0
\* is the only class among its pixels.
C2_ZeroOnlyWhenAlone ==
    (HasTypes /\ ~IsNone(inst_info_dict)) =>
        \A id \in DOMAIN Info :
            (Typed(id) /\ Info[id].type = 0) => Classes(id) = {0}

\* C2 witness: an instance with more class-0 pixels than any other class, and
\* another class present, reported with a non-zero type.
C2_Witness ==
    /\ HasTypes /\ pc = "done"
    /\ \E id \in DOMAIN Info :
        /\ Typed(id)
        /\ \E c \in Classes(id) \ {0} : Cnt(id, 0) > Cnt(id, c)
        /\ Info[id].type # 0

\* C3: the reported type is the first class of the ranking by descending pixel
\* count with ties to the smaller class id, except that a first-ranked class 0
\* gives way to the second-ranked class when there is one.
C3_TypeIsRanked ==
    (HasTypes /\ ~IsNone(inst_info_dict)) =>
        \A id \in DOMAIN Info :
            Typed(id) =>
                LET first == RankFirst(id, Classes(id))
                    rest == Classes(id) \ {first}
                IN  Info[id].type = IF first = 0 /\ rest # {}
                                    THEN RankFirst(id, rest)
                                    ELSE first

\* C3 witness: two non-zero classes tie for the most pixels and the smaller is reported.
C3_Witness ==
    /\ HasTypes /\ pc = "done"
    /\ \E id \in DOMAIN Info :
        /\ Typed(id)
        /\ \E c \in Classes(id), e \in Classes(id) :
            /\ 0 < c /\ c < e
            /\ Cnt(id, c) = Cnt(id, e)
            /\ \A g \in Classes(id) : Cnt(id, g) <= Cnt(id, c)
            /\ Info[id].type = c

\* C4: with nr_types given and return_probs true, every entry's probs vector is
\* indexed by exactly the class ids 0 .. nr_types - 1, probs[c] is the share of
\* the instance's pixels whose class is c, and every class among the pixels is
\* an index of the vector.
C4_ProbsAreShares ==
    (HasTypes /\ return_probs /\ ~IsNone(inst_info_dict)) =>
        \A id \in DOMAIN Info :
            (Typed(id) \/ pc \in {"return", "done"}) =>
                /\ "probs" \in DOMAIN Info[id]
                /\ DOMAIN Info[id].probs = 0 .. Val(nr_types) - 1
                /\ Classes(id) \subseteq 0 .. Val(nr_types) - 1
                /\ \A c \in 0 .. Val(nr_types) - 1 :
                    /\ Info[id].probs[c].den > 0
                    /\ Info[id].probs[c].num * Area(id) = Cnt(id, c) * Info[id].probs[c].den

\* C4 witness: an instance that does not fill its bounding box, with two
\* classes among its pixels and a third class id absent, has its probs.
C4_Witness ==
    /\ HasTypes /\ return_probs /\ pc = "done"
    /\ \E id \in DOMAIN Info :
        /\ "probs" \in DOMAIN Info[id]
        /\ Cardinality(Classes(id)) = 2
        /\ LET b == get_bounding_box(Region(pred_inst, id))
           IN  Area(id) < (b[2] - b[1]) * (b[4] - b[3])

\* C5: with nr_types given and fewer than nr_types + 3 channels, process never
\* gets past the segmentation stage and returns nothing: it has failed, or is
\* on the way to the watershed call that fails.
C5_MalformedFails ==
    (HasTypes /\ ~WellFormed) =>
        /\ result = None
        /\ inst_info_dict = None
        /\ pc \in {"split", "proc_np_hv", "marker", "watershed", "error"}
        /\ pc = "watershed" => blb_shape # dist_shape

\* C5 witness: nr_types + 1 channels (np.squeeze drops the channel axis) ended in error.
C5_Witness ==
    /\ HasTypes /\ nchan = Val(nr_types) + 1
    /\ pc = "error"

\* C6: with return_dict false and nr_types None no attribute is extracted and
\* the label image is returned with None, whatever return_probs is.
C6_NoExtraction ==
    (~return_dict /\ ~HasTypes) =>
        /\ ncalls = 0
        /\ inst_info_dict = None
        /\ inst_bbox_dict = None
        /\ pc \notin {"extract", "type"}
        /\ pc = "done" => result = Some([inst |-> pred_inst, info |-> None])

\* C6 witness: such a call with return_probs true returned a label image holding an instance.
C6_Witness ==
    /\ ~return_dict /\ ~HasTypes /\ return_probs
    /\ pc = "done"
    /\ Labels(Val(result).inst) # {}

\* C7: with the foreground probability below 0.5 everywhere (and a well-formed
\* shape) process never errs and never stands before a step that would, returns
\* the all-zero label image and, when extraction is requested, an empty mapping.
C7_EmptyInput ==
    ((\A p \in Pixels : prob[p] < ProbThreshold) /\ WellFormed) =>
        /\ pc # "error"
        /\ pc = "proc_np_hv" => CanIndexLast(inst_shape, InstChannels - 1)
        /\ pc = "watershed" => blb_shape = dist_shape
        /\ Segmented => pred_inst = Zero
        /\ pc = "done" =>
            /\ Val(result).inst = Zero
            /\ WantsInfo => Val(result).info = Some(<<>>)
            /\ ~WantsInfo => Val(result).info = None

\* C7 witness: an all-background call with extraction requested has returned.
C7_Witness ==
    /\ \A p \in Pixels : prob[p] < ProbThreshold
    /\ WantsInfo
    /\ pc = "done"

\* C8: the stored centroid and every stored contour point of an instance lie in
\* its bounding box: cmin <= x < cmax and rmin <= y < rmax.
C8_InsideBox ==
    (Segmented /\ ~IsNone(inst_info_dict)) =>
        \A id \in DOMAIN Info :
            LET b == get_bounding_box(Region(pred_inst, id))
                cx == Info[id].centroid[1]
                cy == Info[id].centroid[2]
            IN  /\ b[3] * cx.den <= cx.num /\ cx.num < b[4] * cx.den
                /\ b[1] * cy.den <= cy.num /\ cy.num < b[2] * cy.den
                /\ \A pt \in Info[id].contour :
                    /\ b[3] <= pt[1] /\ pt[1] < b[4]
                    /\ b[1] <= pt[2] /\ pt[2] < b[2]

\* C8 witness: an entry whose box starts at a column other than its row origin
\* and is wider than the image is high, with a contour point right of every row index.
C8_Witness ==
    /\ Segmented /\ ~IsNone(inst_info_dict)
    /\ \E id \in DOMAIN Info :
        LET b == get_bounding_box(Region(pred_inst, id))
        IN  /\ b[3] > b[1]
            /\ \E pt \in Info[id].contour : pt[1] >= Rows

\* The pixels with probability >= 0.5 that lie in a 4-connected component of at
\* least 10 such pixels.
BigComponents ==
    LET cs == Components({q \in Pixels : prob[q] >= ProbThreshold})
    IN  UNION {cs[i] : i \in {j \in 1 .. Len(cs) : Cardinality(cs[j]) >= min_size}}

\* C9: in the label image the segmentation stage hands back, every pixel
\* outside the foreground mask (probability >= 0.5 and in a 4-connected
\* component of at least 10 such pixels) has label 0, also where a marker
\* covers it.
C9_ZeroOutsideMask ==
    pc = "unique" =>
        LET big == BigComponents
        IN  \A p \in Pixels : p \notin big => pred_inst[p] = 0

\* C9 witness: a marker covers a pixel with probability below 0.5 (a filled
\* hole), a thresholded component smaller than 10 pixels exists, and the label
\* image holds an instance.
C9_Witness ==
    /\ pc = "unique"
    /\ \E p \in Pixels : prob[p] < ProbThreshold /\ marker[p] # 0
    /\ LET big == BigComponents
       IN  \E p \in Pixels : prob[p] >= ProbThreshold /\ p \notin big
    /\ Labels(pred_inst) # {}

\* The mapping the two loops of process() build in list order.
RECURSIVE GeomLoop(_, _)
GeomLoop(ids, d) ==
    IF ids = <<>> THEN d
    ELSE GeomLoop(Tail(ids), Put(d, Head(ids), GeomEntry(pred_inst, Head(ids))))
RECURSIVE TypeLoop(_, _)
TypeLoop(ids, d) ==
    IF ids = <<>> THEN d
    ELSE TypeLoop(Tail(ids),
                  Put(d, Head(ids),
                      TypedEntry(d[Head(ids)], pred_inst, ClassMap, Head(ids),
                                 BboxOf(Region(pred_inst, Head(ids))), Val(nr_types),
                                 return_probs)))
InListOrder ==
    IF HasTypes THEN TypeLoop(inst_id_list, GeomLoop(inst_id_list, <<>>))
    ELSE GeomLoop(inst_id_list, <<>>)
\* A step of the extraction leaves the label image and the class map alone,
\* drops no entry and writes at most one.
OwnEntryOnly ==
    (pc = "extract" /\ pc' = "extract") =>
        /\ pred_inst' = pred_inst
        /\ pred_type' = pred_type
        /\ DOMAIN Info \subseteq DOMAIN Info'
        /\ Cardinality({j \in DOMAIN Info' : j \notin DOMAIN Info \/ Info'[j] # Info[j]}) <= 1
\* C10: whatever the order in which the ids are processed, the final mapping
\* is the one the two loops give in list order, and no step changes the label
\* image or the entry of another id.
C10_OrderIndependent ==
    /\ [](pc = "done" /\ WantsInfo => Val(result).info = Some(InListOrder))
    /\ [][OwnEntryOnly]_vars

\* C10 witness: of two ids the larger has both its geometry and its type
\* while the smaller, earlier in the list, has not been touched.
C10_Witness ==
    /\ pc = "extract" /\ HasTypes
    /\ \E a \in Ids, b \in Ids :
        /\ a < b
        /\ b \in TypeDone /\ a \notin GeomDone

====
